---- MODULE Spec2Model ----
(***************************************************************************)
(* Model of src/data/hhh_graph.py: HHHGraph.process() reads the per-event  *)
(* padded jet / parent-particle columns of one ROOT file, removes low-pt   *)
(* jet slots, drops events with too few jets, rewrites the match index,    *)
(* builds the both-directions edge list, edge features and edge targets,   *)
(* and appends one Data record per event to data_list, which is saved.     *)
(*                                                                         *)
(* Numbers: pt, eta, phi, btag are floats in the program; the model keeps  *)
(* integer stand-ins, which is enough for every comparison the code makes  *)
(* (pt > MIN_JET_PT, equality of two jets' coordinates).  Logarithms and   *)
(* the derived pair kinematics are kept as symbolic terms over the         *)
(* operands they are computed from.                                        *)
(***************************************************************************)
EXTENDS Integers, Sequences, FiniteSets, TLC

VARIABLES
    pc,             \* position of process() in its body
    raw_dir,        \* the files on disk: file name -> [status, tree]
    pre_filter,     \* constructor argument pre_filter
    file_idx,       \* position of the `for file_name in raw_file_names` loop
    events,         \* the entries NanoEventsFactory returned for the file
    higgs_pt, higgs_eta, higgs_phi,
    pt, eta, phi, btag, jet_id, higgs_idx, hadron_flavor,
    entry,          \* history: input entry every row of the jet arrays came from
    higgs_entry,    \* history: input entry every row of the parent arrays came from
    edge_indices,
    edge_attr,      \* the seven edge feature arrays, as one term per pair
    edge_match,
    i,              \* loop variable of `for i in range(0, n_events)`
    data_list,
    skipped,        \* number of times the "skipping event" warning was logged
    processed_file  \* processed_paths[0]: whether it exists, and the list saved in it

vars == <<pc, raw_dir, pre_filter, file_idx, events, higgs_pt, higgs_eta, higgs_phi,
          pt, eta, phi, btag, jet_id, higgs_idx, hadron_flavor, entry, higgs_entry,
          edge_indices, edge_attr, edge_match, i, data_list, skipped,
          processed_file>>

(***************************************************************************)
(* Program constants                                                       *)
(***************************************************************************)
N_JETS == 10
MIN_JET_PT == 20
MIN_JETS == 6
N_HIGGS == 3
B_FLAVOR == 5

raw_file_names == <<"GluGluToHHHTo6B_SM.root">>

pre_transform == "None"

(***************************************************************************)
(* Bounds of the model and the inputs it enumerates                        *)
(***************************************************************************)
MaxEvents == 2

\* Jet slots whose content varies over FreeVals; the following
\* MIN_JETS - 1 slots hold the jets of FixedJets, the rest is zero padding.
FreeSlots == {1, 2}

Jet(p, e, f, b, id, h, fl) ==
    [pt |-> p, eta |-> e, phi |-> f, btag |-> b, jet_id |-> id,
     higgs_idx |-> h, hadron_flavor |-> fl]

PadJet == Jet(0, 0, 0, 0, 0, -1, 0)

ThresholdJet == Jet(20, 7, 1, 3, 6, 3, 5)     \* pt exactly MIN_JET_PT
MatchedJet == Jet(40, 6, 1, 9, 6, 2, 5)       \* matched b-jet
GhostJet == Jet(40, 6, 1, 2, 2, 1, 4)         \* same (pt, eta, phi); matched, flavour 4
OtherJet == Jet(50, 8, 2, 8, 6, 3, 5)

\* The values a free slot may hold.
FreeVals(s) ==
    IF s = 1 THEN {ThresholdJet, MatchedJet, OtherJet}
    ELSE {ThresholdJet, MatchedJet, GhostJet}

FixedJets ==
    << Jet(100, 1, 0, 9, 6, 2, 5),
       Jet(90, 2, 0, 9, 6, 1, 5),
       Jet(80, 3, 0, 8, 6, 1, 5),
       Jet(70, 4, 0, 1, 6, -1, 5),
       Jet(60, 5, 0, 7, 6, 3, 4) >>

NFree == Cardinality(FreeSlots)

SlotJet(free, s) ==
    IF s \in FreeSlots THEN free[s]
    ELSE IF s - NFree \in 1..Len(FixedJets) THEN FixedJets[s - NFree]
    ELSE PadJet

\* One entry of the "Events" tree: the flat branches jet{i}Pt, ..., genHiggs{i}Pt, ...
EventOf(free) ==
    [ jetPt                |-> [s \in 1..N_JETS |-> SlotJet(free, s).pt],
      jetEta               |-> [s \in 1..N_JETS |-> SlotJet(free, s).eta],
      jetPhi               |-> [s \in 1..N_JETS |-> SlotJet(free, s).phi],
      jetDeepFlavB         |-> [s \in 1..N_JETS |-> SlotJet(free, s).btag],
      jetJetId             |-> [s \in 1..N_JETS |-> SlotJet(free, s).jet_id],
      jetHiggsMatchedIndex |-> [s \in 1..N_JETS |-> SlotJet(free, s).higgs_idx],
      jetHadronFlavour     |-> [s \in 1..N_JETS |-> SlotJet(free, s).hadron_flavor],
      genHiggsPt           |-> [h \in 1..N_HIGGS |-> 100 * (N_HIGGS + 1 - h)],
      genHiggsEta          |-> [h \in 1..N_HIGGS |-> h - 2],
      genHiggsPhi          |-> [h \in 1..N_HIGGS |-> h] ]

EventVals ==
    { EventOf(free) : free \in { g \in [FreeSlots -> UNION { FreeVals(s) : s \in FreeSlots }] :
                                    \A s \in FreeSlots : g[s] \in FreeVals(s) } }

TreeVals == UNION { [1..n -> EventVals] : n \in 0..MaxEvents }

FileStatus == {"ok", "missing", "no_column"}

PreFilterVals == {"None", "HasMatch"}

(***************************************************************************)
(* Helpers on sequences                                                    *)
(***************************************************************************)
RECURSIVE ApplyMask(_, _)
\* arr[mask] for a boolean mask of the same length
ApplyMask(arr, mask) ==
    IF Len(arr) = 0 THEN <<>>
    ELSE IF mask[1] THEN <<arr[1]>> \o ApplyMask(Tail(arr), Tail(mask))
         ELSE ApplyMask(Tail(arr), Tail(mask))

\* arr[mask] for a jagged array and a jagged mask (one mask per event)
ApplyJetMask(arr, mask) == [e \in 1..Len(arr) |-> ApplyMask(arr[e], mask[e])]


(***************************************************************************)
(* Module-level functions                                                  *)
(***************************************************************************)
\* One array of shape (events, n) from the n branches name{1}..name{n}.
get_n_features(name, evts, n) ==
    [e \in 1..Len(evts) |-> [s \in 1..n |-> evts[e][name][s]]]

\* ak.argcartesian([a, a]) for one event: every (i, j), 0-based, row-major.
ArgCartesian(a) ==
    [p \in 1..(Len(a) * Len(a)) |-> <<(p - 1) \div Len(a), (p - 1) % Len(a)>>]

\* The commented-out single-direction variant (ak.argcombinations(arr, 2)).
get_edge_index_single(arr) ==
    [e \in 1..Len(arr) |-> SelectSeq(ArgCartesian(arr[e]), LAMBDA ij : ij[1] < ij[2])]

get_edge_index(arr) ==
    [e \in 1..Len(arr) |-> SelectSeq(ArgCartesian(arr[e]), LAMBDA ij : ij[1] # ij[2])]

\* ak.cartesian({"j0": jets, "j1": jets}) for one event, row-major.
Cartesian(jets) ==
    [p \in 1..(Len(jets) * Len(jets)) |->
        [j0 |-> jets[((p - 1) \div Len(jets)) + 1],
         j1 |-> jets[((p - 1) % Len(jets)) + 1]]]

\* `==` of two Momentum4D records: equality of the four coordinates
\* (pt, phi, eta, mass); fields that are not coordinates take no part.
VectorEqual(v1, v2) ==
    /\ v1.pt = v2.pt
    /\ v1.phi = v2.phi
    /\ v1.eta = v2.eta
    /\ v1.mass = v2.mass

\* The seven derived features (log_delta_r, log_mass2, log_kt, log_z,
\* log_pt_jj, eta_jj, phi_jj) of a pair are functions of the two jets'
\* (pt, eta, phi); the model keeps them as the term they are computed from.
PairFeatures(j0, j1) == << <<j0.pt, j0.eta, j0.phi>>, <<j1.pt, j1.eta, j1.phi>> >>

\* ak.where(j0.higgs_idx > 0, j0.higgs_idx == j1.higgs_idx, 0)
EdgeMatch(j0, j1) ==
    IF j0.higgs_idx > 0
    THEN (IF j0.higgs_idx = j1.higgs_idx THEN 1 ELSE 0)
    ELSE 0

ZipJets(a_pt, a_eta, a_phi, a_idx) ==
    [e \in 1..Len(a_pt) |->
        [n \in 1..Len(a_pt[e]) |->
            [pt |-> a_pt[e][n], eta |-> a_eta[e][n], phi |-> a_phi[e][n],
             mass |-> 0, higgs_idx |-> a_idx[e][n]]]]

JetPairs(jets) ==
    [e \in 1..Len(jets) |->
        SelectSeq(Cartesian(jets[e]), LAMBDA pr : ~VectorEqual(pr.j0, pr.j1))]

\* The parent arrays are zipped into `higgses`, which nothing reads.
compute_edge_features(a_pt, a_eta, a_phi, a_idx, h_pt, h_eta, h_phi) ==
    LET jet_pairs == JetPairs(ZipJets(a_pt, a_eta, a_phi, a_idx))
    IN  [ edge_attr  |-> [e \in 1..Len(jet_pairs) |->
                            [q \in 1..Len(jet_pairs[e]) |->
                                PairFeatures(jet_pairs[e][q].j0, jet_pairs[e][q].j1)]],
          edge_match |-> [e \in 1..Len(jet_pairs) |->
                            [q \in 1..Len(jet_pairs[e]) |->
                                EdgeMatch(jet_pairs[e][q].j0, jet_pairs[e][q].j1)]] ]

(***************************************************************************)
(* Pieces of process()                                                     *)
(***************************************************************************)
\* What opening the file and reading its branches raises, if anything.
LoadErrorSwallowed(f) == "None"

LoadError(f) ==
    IF f.status = "missing" THEN "SourceUnavailable"
    ELSE IF f.status = "no_column" THEN "SchemaMismatch"
    ELSE "None"

\* mask = pt > MIN_JET_PT
JetPtMask(a_pt) ==
    [e \in 1..Len(a_pt) |-> [s \in 1..Len(a_pt[e]) |-> a_pt[e][s] > MIN_JET_PT]]

EventMaskStrict(a_pt) == [e \in 1..Len(a_pt) |-> Len(a_pt[e]) > MIN_JETS]

EventMaskLoose(a_pt) == [e \in 1..Len(a_pt) |-> Len(a_pt[e]) >= MIN_JETS - 1]

\* mask = ak.num(pt) >= MIN_JETS
EventMask(a_pt) == [e \in 1..Len(a_pt) |-> Len(a_pt[e]) >= MIN_JETS]

\* higgs_idx = ak.where(higgs_idx > -1, higgs_idx, 0)
SwitchUnmatched(a_idx) ==
    [e \in 1..Len(a_idx) |->
        [n \in 1..Len(a_idx[e]) |-> IF a_idx[e][n] > -1 THEN a_idx[e][n] ELSE 0]]

\* higgs_idx = ak.where(hadron_flavor == 5, higgs_idx, 0)
RequireBFlavor(a_idx, a_flavor) ==
    [e \in 1..Len(a_idx) |->
        [n \in 1..Len(a_idx[e]) |->
            IF a_flavor[e][n] = B_FLAVOR THEN a_idx[e][n] ELSE 0]]

\* ln(v), kept symbolic
Log(v) == <<"ln", v>>

\* Data(x=x, edge_attr=edge_attr, edge_index=edge_index, y=y) for row r.
\* The field entry is history: the input entry the record was built from.
MakeData(r) ==
    [ x          |-> [n \in 1..Len(pt[r]) |->
                        <<Log(pt[r][n]), eta[r][n], phi[r][n], btag[r][n], jet_id[r][n]>>],
      edge_attr  |-> edge_attr[r],
      edge_index |-> edge_indices[r],
      y          |-> edge_match[r],
      entry      |-> entry[r] ]

PrependData(list, d) == <<d>> \o list

\* data_list.append(data)
AppendData(list, d) == Append(list, d)

\* The pre_filter callables the model configures.
PreFilterKeeps(d) ==
    \/ pre_filter = "None"
    \/ /\ pre_filter = "HasMatch"
       /\ \E q \in 1..Len(d.y) : d.y[q] = 1


(***************************************************************************)
(* State machine of process()                                              *)
(***************************************************************************)
Names == { raw_file_names[k] : k \in 1..Len(raw_file_names) }

\* A file is readable with any tree up to MaxEvents entries, is missing, or
\* holds entries but lacks an expected branch.
FileVals ==
    { [status |-> "ok", tree |-> t] : t \in TreeVals }
    \cup { [status |-> "missing", tree |-> <<>>] }
    \cup { [status |-> "no_column", tree |-> <<ev>>] : ev \in EventVals }

Init ==
    /\ pc = "open"
    /\ raw_dir \in [Names -> FileVals]
    /\ pre_filter \in PreFilterVals
    /\ file_idx = 1
    /\ events = <<>>
    /\ higgs_pt = <<>> /\ higgs_eta = <<>> /\ higgs_phi = <<>>
    /\ pt = <<>> /\ eta = <<>> /\ phi = <<>> /\ btag = <<>> /\ jet_id = <<>>
    /\ higgs_idx = <<>> /\ hadron_flavor = <<>>
    /\ entry = <<>>
    /\ higgs_entry = <<>>
    /\ edge_indices = <<>> /\ edge_attr = <<>> /\ edge_match = <<>>
    /\ i = 0
    /\ data_list = <<>>
    /\ skipped = 0
    /\ processed_file = [exists |-> FALSE, data |-> <<>>]

CurrentFile == raw_dir[raw_file_names[file_idx]]

\* Lines 102-117: open the file, read the entries, build the ten arrays.
\* An exception raised here leaves process().
OpenFile ==
    /\ pc = "open"
    /\ file_idx <= Len(raw_file_names)
    /\ LoadError(CurrentFile) = "None"
    /\ events' = CurrentFile.tree
    /\ higgs_pt' = get_n_features("genHiggsPt", events', N_HIGGS)
    /\ higgs_eta' = get_n_features("genHiggsEta", events', N_HIGGS)
    /\ higgs_phi' = get_n_features("genHiggsPhi", events', N_HIGGS)
    /\ pt' = get_n_features("jetPt", events', N_JETS)
    /\ eta' = get_n_features("jetEta", events', N_JETS)
    /\ phi' = get_n_features("jetPhi", events', N_JETS)
    /\ btag' = get_n_features("jetDeepFlavB", events', N_JETS)
    /\ jet_id' = get_n_features("jetJetId", events', N_JETS)
    /\ higgs_idx' = get_n_features("jetHiggsMatchedIndex", events', N_JETS)
    /\ hadron_flavor' = get_n_features("jetHadronFlavour", events', N_JETS)
    /\ entry' = [e \in 1..Len(events') |-> e]
    /\ higgs_entry' = [e \in 1..Len(events') |-> e]
    /\ pc' = "jet_mask"
    /\ UNCHANGED <<raw_dir, pre_filter, file_idx, edge_indices, edge_attr, edge_match,
                   i, data_list, skipped, processed_file>>

OpenFileRaises ==
    /\ pc = "open"
    /\ file_idx <= Len(raw_file_names)
    /\ LoadError(CurrentFile) # "None"
    /\ pc' = "aborted"
    /\ UNCHANGED <<raw_dir, pre_filter, file_idx, events, higgs_pt, higgs_eta, higgs_phi, higgs_entry,
                   pt, eta, phi, btag, jet_id, higgs_idx, hadron_flavor, entry,
                   edge_indices, edge_attr, edge_match, i, data_list, skipped,
                   processed_file>>

\* Lines 119-127: remove jets below MIN_JET_PT from the seven jet arrays.
RemoveLowPtJets ==
    /\ pc = "jet_mask"
    /\ LET mask == JetPtMask(pt)
       IN  /\ pt' = ApplyJetMask(pt, mask)
           /\ eta' = ApplyJetMask(eta, mask)
           /\ phi' = ApplyJetMask(phi, mask)
           /\ btag' = ApplyJetMask(btag, mask)
           /\ jet_id' = ApplyJetMask(jet_id, mask)
           /\ higgs_idx' = ApplyJetMask(higgs_idx, mask)
           /\ hadron_flavor' = ApplyJetMask(hadron_flavor, mask)
    /\ pc' = "event_mask"
    /\ UNCHANGED <<raw_dir, pre_filter, file_idx, events, higgs_pt, higgs_eta, higgs_phi, higgs_entry,
                   entry, edge_indices, edge_attr, edge_match, i, data_list, skipped,
                   processed_file>>

\* Lines 129-137: keep events with MIN_JETS jets, in the seven jet arrays.
KeepMinJetsEvents ==
    /\ pc = "event_mask"
    /\ LET mask == EventMask(pt)
       IN  /\ pt' = ApplyMask(pt, mask)
           /\ eta' = ApplyMask(eta, mask)
           /\ phi' = ApplyMask(phi, mask)
           /\ btag' = ApplyMask(btag, mask)
           /\ jet_id' = ApplyMask(jet_id, mask)
           /\ higgs_idx' = ApplyMask(higgs_idx, mask)
           /\ hadron_flavor' = ApplyMask(hadron_flavor, mask)
           /\ entry' = ApplyMask(entry, mask)
    /\ pc' = "relabel"
    /\ UNCHANGED <<raw_dir, pre_filter, file_idx, events, higgs_pt, higgs_eta, higgs_phi, higgs_entry,
                   edge_indices, edge_attr, edge_match, i, data_list, skipped,
                   processed_file>>

\* Lines 139-142: -1 -> 0, then require hadron_flavor == 5.
RelabelHiggsIdx ==
    /\ pc = "relabel"
    /\ higgs_idx' = RequireBFlavor(SwitchUnmatched(higgs_idx), hadron_flavor)
    /\ pc' = "edges"
    /\ UNCHANGED <<raw_dir, pre_filter, file_idx, events, higgs_pt, higgs_eta, higgs_phi, higgs_entry,
                   pt, eta, phi, btag, jet_id, hadron_flavor, entry,
                   edge_indices, edge_attr, edge_match, i, data_list, skipped,
                   processed_file>>

\* Lines 144-149: edge indices, edge features and targets of every event.
BuildEdges ==
    /\ pc = "edges"
    /\ edge_indices' = get_edge_index(pt)
    /\ LET f == compute_edge_features(pt, eta, phi, higgs_idx, higgs_pt, higgs_eta, higgs_phi)
       IN  /\ edge_attr' = f.edge_attr
           /\ edge_match' = f.edge_match
    /\ i' = 0
    /\ pc' = "loop"
    /\ UNCHANGED <<raw_dir, pre_filter, file_idx, events, higgs_pt, higgs_eta, higgs_phi, higgs_entry,
                   pt, eta, phi, btag, jet_id, higgs_idx, hadron_flavor, entry,
                   data_list, skipped, processed_file>>

\* Lines 151-169: one iteration of the per-event loop (i is 0-based).
ProcessEvent ==
    /\ pc = "loop"
    /\ i < Len(pt)
    /\ IF Len(pt[i + 1]) < MIN_JETS
       THEN /\ skipped' = skipped + 1
            /\ UNCHANGED data_list
       ELSE /\ data_list' = AppendData(data_list, MakeData(i + 1))
            /\ UNCHANGED skipped
    /\ i' = i + 1
    /\ UNCHANGED <<pc, raw_dir, pre_filter, file_idx, events, higgs_pt, higgs_eta, higgs_phi, higgs_entry,
                   pt, eta, phi, btag, jet_id, higgs_idx, hadron_flavor, entry,
                   edge_indices, edge_attr, edge_match, processed_file>>

\* The per-event loop is exhausted: on to the next file name, if any.
NextFile ==
    /\ pc = "loop"
    /\ i >= Len(pt)
    /\ file_idx' = file_idx + 1
    /\ pc' = IF file_idx' <= Len(raw_file_names) THEN "open" ELSE "pre_filter"
    /\ UNCHANGED <<raw_dir, pre_filter, events, higgs_pt, higgs_eta, higgs_phi, higgs_entry,
                   pt, eta, phi, btag, jet_id, higgs_idx, hadron_flavor, entry,
                   edge_indices, edge_attr, edge_match, i, data_list, skipped,
                   processed_file>>

\* Lines 171-172.
ApplyPreFilter ==
    /\ pc = "pre_filter"
    /\ data_list' = IF pre_filter # "None"
                    THEN SelectSeq(data_list, PreFilterKeeps)
                    ELSE data_list
    /\ pc' = "save"
    /\ UNCHANGED <<raw_dir, pre_filter, file_idx, events, higgs_pt, higgs_eta, higgs_phi, higgs_entry,
                   pt, eta, phi, btag, jet_id, higgs_idx, hadron_flavor, entry,
                   edge_indices, edge_attr, edge_match, i, skipped, processed_file>>

\* Lines 174-179: pre_transform is None; collate and write the processed file.
Save ==
    /\ pc = "save"
    /\ pre_transform = "None"
    /\ processed_file' = [exists |-> TRUE, data |-> data_list]
    /\ pc' = "done"
    /\ UNCHANGED <<raw_dir, pre_filter, file_idx, events, higgs_pt, higgs_eta, higgs_phi, higgs_entry,
                   pt, eta, phi, btag, jet_id, higgs_idx, hadron_flavor, entry,
                   edge_indices, edge_attr, edge_match, i, data_list, skipped>>

Next ==
    \/ OpenFile
    \/ OpenFileRaises
    \/ RemoveLowPtJets
    \/ KeepMinJetsEvents
    \/ RelabelHiggsIdx
    \/ BuildEdges
    \/ ProcessEvent
    \/ NextFile
    \/ ApplyPreFilter
    \/ Save

Spec == Init /\ [][Next]_vars


(***************************************************************************)
(* Vocabulary of the properties                                            *)
(***************************************************************************)
RawPt == get_n_features("jetPt", events, N_JETS)
RawIdx == get_n_features("jetHiggsMatchedIndex", events, N_JETS)
RawFlavor == get_n_features("jetHadronFlavour", events, N_JETS)

\* Slots of input entry n that pass the jet-pt mask of the code.
PassingSlots(n) == { s \in 1..N_JETS : JetPtMask(RawPt)[n][s] }

\* Slots of input entry n whose pt is not below MIN_JET_PT.
NotBelowSlots(n) == { s \in 1..N_JETS : ~(RawPt[n][s] < MIN_JET_PT) }

\* Original match index / flavour of the surviving jets of row r.
OrigIdx(r) == ApplyMask(RawIdx[entry[r]], JetPtMask(RawPt)[entry[r]])
OrigFlavor(r) == ApplyMask(RawFlavor[entry[r]], JetPtMask(RawPt)[entry[r]])

\* Row of the filtered arrays a record was built from.
RowOf(d) == CHOOSE r \in 1..Len(entry) : entry[r] = d.entry

AfterJetMask == {"event_mask", "relabel", "edges", "loop", "pre_filter", "save", "done"}
AfterEventMask == {"relabel", "edges", "loop", "pre_filter", "save", "done"}
AfterRelabel == {"edges", "loop", "pre_filter", "save", "done"}
AfterLoop == {"pre_filter", "save", "done"}

RecordsOf(n) == { q \in 1..Len(data_list) : data_list[q].entry = n }

\* A jet whose original match index names a parent but whose flavour is not 5.
GhostMismatch(r, v) == OrigIdx(r)[v] >= 1 /\ OrigFlavor(r)[v] # B_FLAVOR

SharedPositiveMatch(r, a, b) ==
    higgs_idx[r][a] > 0 /\ higgs_idx[r][a] = higgs_idx[r][b]

(***************************************************************************)
(* Properties                                                              *)
(***************************************************************************)

\* C1: every record built from an event with k surviving jets has exactly
\* k*(k-1) edge index entries, each an ordered pair (i, j) of node positions
\* with 0 <= i, j < k and i # j, and every such ordered pair occurs exactly once.
C1_EdgeIndexComplete ==
    \A q \in 1..Len(data_list) :
        LET d == data_list[q]
            k == Len(d.x)
            E == d.edge_index
        IN  /\ Len(E) = k * (k - 1)
            /\ \A e \in 1..Len(E) :
                   /\ E[e][1] \in 0..(k - 1)
                   /\ E[e][2] \in 0..(k - 1)
                   /\ E[e][1] # E[e][2]
            /\ \A a \in 0..(k - 1) : \A b \in 0..(k - 1) :
                   a # b => Cardinality({ e \in 1..Len(E) : E[e] = <<a, b>> }) = 1

C1_Witness ==
    /\ pc = "done"
    /\ \E q \in 1..Len(data_list) :
           /\ Len(data_list[q].x) > MIN_JETS
           /\ Len(data_list[q].edge_index) = Len(data_list[q].x) * (Len(data_list[q].x) - 1)

\* C2: for every edge (a, b) of every record, the label stored for that edge
\* is 1 exactly when the filtered match index of jet a is positive and equals
\* that of jet b (so it is 0 when either is 0, and both directions agree).
C2_LabelIffSharedMatch ==
    \A q \in 1..Len(data_list) :
        LET d == data_list[q]
            r == RowOf(d)
        IN  \A e \in 1..Len(d.edge_index) :
                /\ e \in 1..Len(d.y)
                /\ d.y[e] \in {0, 1}
                /\ d.y[e] = 1 <=>
                       SharedPositiveMatch(r, d.edge_index[e][1] + 1, d.edge_index[e][2] + 1)

\* C3: with no pre_filter, an input entry yields exactly one record if at
\* least MIN_JETS of its slots pass the jet-pt mask and none otherwise; every
\* record has k >= MIN_JETS nodes, k being the number of slots of its entry
\* that passed the mask.
C3_OneRecordIffEnoughJets ==
    /\ \A q \in 1..Len(data_list) :
           /\ Len(data_list[q].x) >= MIN_JETS
           /\ Len(data_list[q].x) = Cardinality(PassingSlots(data_list[q].entry))
    /\ (pc \in AfterLoop /\ pre_filter = "None") =>
           \A n \in 1..Len(events) :
               Cardinality(RecordsOf(n)) =
                   IF Cardinality(PassingSlots(n)) >= MIN_JETS THEN 1 ELSE 0

C3_Witness ==
    /\ pc = "done"
    /\ pre_filter = "None"
    /\ \E n \in 1..Len(events) :
           Cardinality(PassingSlots(n)) >= MIN_JETS /\ Cardinality(RecordsOf(n)) = 1
    /\ \E n \in 1..Len(events) :
           Cardinality(PassingSlots(n)) < MIN_JETS /\ Cardinality(RecordsOf(n)) = 0

\* C4: step 1 removes a slot exactly when its pt is below MIN_JET_PT: after
\* it, the jets of every event are the slots whose pt is not below MIN_JET_PT
\* (a slot at exactly MIN_JET_PT included), and an event with at least
\* MIN_JETS such slots is kept by step 2.
C4_RemovedIffBelowThreshold ==
    /\ pc = "event_mask" =>
           \A n \in 1..Len(events) : Len(pt[n]) = Cardinality(NotBelowSlots(n))
    /\ pc \in AfterEventMask =>
           \A n \in 1..Len(events) :
               Cardinality(NotBelowSlots(n)) >= MIN_JETS =>
                   \E r \in 1..Len(entry) : entry[r] = n

\* C5: after the filter the match index of a surviving jet is 0 if the
\* original was negative or the flavour is not 5, and the original otherwise;
\* it lies in 0..N_HIGGS; and a jet with original match index >= 1 but
\* flavour other than 5 is never an endpoint of an edge labelled 1.
C5_FilteredMatchIndex ==
    /\ pc \in AfterRelabel =>
           \A r \in 1..Len(higgs_idx) : \A n \in 1..Len(higgs_idx[r]) :
               /\ higgs_idx[r][n] =
                      IF OrigIdx(r)[n] < 0 \/ OrigFlavor(r)[n] # B_FLAVOR
                      THEN 0 ELSE OrigIdx(r)[n]
               /\ higgs_idx[r][n] \in 0..N_HIGGS
    /\ \A q \in 1..Len(data_list) :
           LET d == data_list[q]
               r == RowOf(d)
           IN  \A e \in (1..Len(d.edge_index)) \cap (1..Len(d.y)) :
                   d.y[e] = 1 =>
                       /\ ~GhostMismatch(r, d.edge_index[e][1] + 1)
                       /\ ~GhostMismatch(r, d.edge_index[e][2] + 1)

\* C6: the event mask of step 2 is applied to the parent arrays too: after
\* it they have one row per retained event, row r of the parent arrays
\* coming from the same input entry as row r of the jet arrays.
C6_ParentRowsFiltered ==
    pc \in AfterEventMask =>
        /\ Len(higgs_pt) = Len(pt)
        /\ Len(higgs_eta) = Len(pt)
        /\ Len(higgs_phi) = Len(pt)
        /\ higgs_entry = entry

\* C7: records are in input order: of two records, the one built from the
\* earlier input entry comes first, in data_list and in the saved file.
C7_InputOrderPreserved ==
    /\ \A p \in 1..Len(data_list) : \A q \in 1..Len(data_list) :
           p < q => data_list[p].entry < data_list[q].entry
    /\ processed_file.exists =>
           \A p \in 1..Len(processed_file.data) : \A q \in 1..Len(processed_file.data) :
               p < q => processed_file.data[p].entry < processed_file.data[q].entry

C7_Witness ==
    /\ pc = "done"
    /\ processed_file.exists
    /\ Len(processed_file.data) >= 2
    /\ processed_file.data[1].entry < processed_file.data[2].entry

C9_EdgeArraysAligned ==
    \A q \in 1..Len(data_list) :
        LET d == data_list[q]
            r == RowOf(d)
            k == Len(d.x)
            jets == ZipJets(pt, eta, phi, higgs_idx)[r]
        IN  /\ Len(d.edge_index) = k * (k - 1)
            /\ Len(d.edge_attr) = Len(d.edge_index)
            /\ Len(d.y) = Len(d.edge_index)
            /\ \A e \in 1..Len(d.edge_index) :
                   LET j0 == jets[d.edge_index[e][1] + 1]
                       j1 == jets[d.edge_index[e][2] + 1]
                   IN  /\ d.edge_attr[e] = PairFeatures(j0, j1)
                       /\ d.y[e] = EdgeMatch(j0, j1)

\* C10: the re-check inside the per-event loop never fires: every row the
\* loop visits has at least MIN_JETS jets, no warning is logged, and the
\* loop appends one record per event that passed step 2.
C10_RecheckNeverTaken ==
    /\ skipped = 0
    /\ pc \in AfterEventMask => \A r \in 1..Len(pt) : Len(pt[r]) >= MIN_JETS
    /\ pc = "loop" => Len(data_list) = i
    /\ pc \in AfterLoop => i = Len(pt)

C10_Witness ==
    /\ pc = "loop"
    /\ i = Len(pt)
    /\ Len(data_list) = i
    /\ i >= 1
    /\ Len(events) > Len(pt)

====
